---- MODULE Spec2Model ----
(***************************************************************************)
(* Model of src/main.go: the batch pipeline that turns a list of domains   *)
(* into the BGP prefixes of the AS hosting each domain.                    *)
(*                                                                         *)
(* Strings are sequences of one-character strings ("" is <<>>), so that    *)
(* strings.TrimSpace and strings.Split are computed, not assumed.  The     *)
(* outside world (the file system, dig, whois, the HTTP API) is a          *)
(* nondeterministic choice of what it hands back to the program.           *)
(***************************************************************************)
EXTENDS Integers, Sequences, FiniteSets, TLC

\* ------------------------------------------------------------------ bounds
\* Longest domains.txt content (in characters) the model reads.
MaxFileLen == 3
\* Longest "prefixes" array of an API response body.
MaxPrefixes == 2
\* Longest whois output, in lines.
MaxWhoisLines == 2

\* --------------------------------------------------------------- constants
\* http.StatusOK
StatusOK == 200

LF == "\n"

\* All sequences over S of length at most n.
SeqUpTo(S, n) == UNION {[1..m -> S] : m \in 0..n}

\* ----------------------------------------------------- strings (Go stdlib)
IsSpace(c) == c \in {" ", LF, "\t", "\r"}

RECURSIVE TrimLeft(_)
TrimLeft(s) ==
    IF s # <<>> /\ IsSpace(Head(s)) THEN TrimLeft(Tail(s)) ELSE s

RECURSIVE TrimRight(_)
TrimRight(s) ==
    IF s # <<>> /\ IsSpace(s[Len(s)]) THEN TrimRight(SubSeq(s, 1, Len(s) - 1)) ELSE s

\* strings.TrimSpace
TrimSpace(s) == TrimRight(TrimLeft(s))

\* strings.Split(s, sep) for a one-character sep: n separators give n+1
\* pieces, so the result is never empty (Split("", sep) is [""]).
RECURSIVE Split(_, _)
Split(s, sep) ==
    IF \A i \in 1..Len(s) : s[i] # sep
    THEN << s >>
    ELSE LET i == CHOOSE j \in 1..Len(s) :
                     s[j] = sep /\ \A h \in 1..(j - 1) : s[h] # sep
         IN  << SubSeq(s, 1, i - 1) >> \o Split(SubSeq(s, i + 1, Len(s)), sep)

\* ------------------------------------------------------------ strconv.Atoi
\* Decimal digits of the largest int (64-bit build): 9223372036854775807.
MaxIntDigits == <<9,2,2,3,3,7,2,0,3,6,8,5,4,7,7,5,8,0,7>>

RECURSIVE StripZeros(_)
StripZeros(d) == IF Len(d) > 1 /\ Head(d) = 0 THEN StripZeros(Tail(d)) ELSE d

RECURSIVE LexLE(_, _)
LexLE(a, b) ==
    IF a = <<>> THEN TRUE
    ELSE IF Head(a) # Head(b) THEN Head(a) < Head(b)
    ELSE LexLE(Tail(a), Tail(b))

InIntRange(d) ==
    LET s == StripZeros(d)
    IN  \/ Len(s) < Len(MaxIntDigits)
        \/ Len(s) = Len(MaxIntDigits) /\ LexLE(s, MaxIntDigits)

RECURSIVE DecValue(_)
DecValue(d) ==
    IF d = <<>> THEN 0
    ELSE DecValue(SubSeq(d, 1, Len(d) - 1)) * 10 + d[Len(d)]

\* strconv.Atoi on a non-empty string of decimal digits: the value, or a
\* range error.  (On a range error Go returns the largest int with the error;
\* main discards the value, so it is modelled as 0.)
Atoi(d) ==
    IF InIntRange(d) THEN [err |-> FALSE, val |-> DecValue(StripZeros(d))]
    ELSE [err |-> TRUE, val |-> 0]

\* --------------------------------------------------- what the world returns
NoString == <<>>

\* domains.txt holds domain characters and line breaks.
FileChars == {"a", LF}
FileContents == SeqUpTo(FileChars, MaxFileLen)
\* ioutil.ReadFile: an error, or the file's content.
ReadOutcomes ==
    {[err |-> TRUE, data |-> NoString]}
        \cup {[err |-> FALSE, data |-> d] : d \in FileContents}

\* Standard output of `dig +short`: one address per line, possibly nothing.
DigOutputs ==
    { <<>>, <<"1", LF>>, <<"1", LF, "2", LF>> }
\* cmd.Run() of dig: an error (the output is then discarded), or its output.
DigOutcomes ==
    {[err |-> TRUE, out |-> NoString]}
        \cup {[err |-> FALSE, out |-> o] : o \in DigOutputs}

\* Digit strings that may follow "OriginAS: AS" in a whois answer; the last
\* one is 9223372036854775808, one more than the largest int.
AsDigitStrings ==
    { <<0>>, <<7>>, <<9,2,2,3,3,7,2,0,3,6,8,5,4,7,7,5,8,0,8>> }
\* A line of whois output: an "OriginAS: AS<digits>" line, or any other text.
OtherLine == [origin |-> FALSE, digits |-> <<>>]
WhoisLines ==
    {OtherLine} \cup {[origin |-> TRUE, digits |-> d] : d \in AsDigitStrings}
\* cmd.Run() of whois: an error, or its output.
WhoisOutcomes ==
    {[err |-> TRUE, out |-> <<>>]}
        \cup {[err |-> FALSE, out |-> o] : o \in SeqUpTo(WhoisLines, MaxWhoisLines)}

\* An element of the "prefixes" array of a response body:
\*   str     {"Prefix": "<p>", ...}      absent  an object with no "Prefix"
\*   num     {"Prefix": 5}  (a JSON number where a string is expected)
PrefixStrings == {<<"p">>, <<"q">>}
NoPrefixEntry == [kind |-> "absent", p |-> NoString]
Entries ==
    {[kind |-> "str", p |-> s] : s \in PrefixStrings}
        \cup {[kind |-> "num", p |-> NoString]}
\* A response body:
\*   invalid       not JSON              null          the JSON value null
\*   array         a top-level array     noprefixes    an object without "prefixes"
\*   prefixesnull  {"prefixes": null}    prefixesstr   {"prefixes": "x"}
\*   list          {"prefixes": [entries]}
\* The lists are those over Entries, and the list of one object that has no
\* "Prefix".
Bodies ==
    {[kind |-> k, entries |-> <<>>] :
        k \in {"invalid", "null", "array", "noprefixes", "prefixesnull", "prefixesstr"}}
        \cup {[kind |-> "list", entries |-> e] : e \in SeqUpTo(Entries, MaxPrefixes)}
        \cup {[kind |-> "list", entries |-> << NoPrefixEntry >>]}
NoBody == [kind |-> "invalid", entries |-> <<>>]
\* The bodies sent with another status than 200: no JSON at all, or a list
\* of one element.
ErrorBodies ==
    {b \in Bodies : b.kind = "invalid" \/ (b.kind = "list" /\ Len(b.entries) = 1)}
\* client.Get and ioutil.ReadAll: a transport error, or a response with a
\* status and a body whose reading may fail.
HttpOutcomes ==
    {[err |-> "transport", status |-> 0, body |-> NoBody]}
        \cup {[err |-> "none", status |-> StatusOK, body |-> b] : b \in Bodies}
        \cup {[err |-> "none", status |-> 404, body |-> b] : b \in ErrorBodies}
        \cup {[err |-> "read", status |-> StatusOK, body |-> NoBody]}

\* ----------------------------------------------- the program's functions
\* readDomainsFromFile
readDomainsFromFile(r) ==
    IF r.err THEN [err |-> TRUE, domains |-> <<>>]
    ELSE [err |-> FALSE, domains |-> Split(TrimSpace(r.data), LF)]

\* getIPsByDig
getIPsByDig(r) ==
    IF r.err THEN [err |-> TRUE, ips |-> <<>>]
    ELSE [err |-> FALSE, ips |-> Split(TrimSpace(r.out), LF)]

\* regexp FindStringSubmatch of `OriginAS:\s+AS(\d+)`: the leftmost match.
RECURSIVE FindStringSubmatch(_)
FindStringSubmatch(out) ==
    IF out = <<>> THEN <<>>
    ELSE IF Head(out).origin THEN << "match", Head(out).digits >>
    ELSE FindStringSubmatch(Tail(out))

\* getASNumberByWhois
getASNumberByWhois(r) ==
    IF r.err THEN [err |-> TRUE, val |-> 0]
    ELSE LET match == FindStringSubmatch(r.out)
         IN  IF Len(match) < 2 THEN [err |-> TRUE, val |-> 0]
             ELSE Atoi(match[2])

\* json.Unmarshal of one array element into a Prefix.
EntryTypeError(e) == e.kind = "num"
DecodeEntry(e) == IF e.kind = "str" THEN e.p ELSE NoString

\* json.Unmarshal(body, &apiResponse): a syntax error on invalid JSON, a type
\* error where a JSON value cannot be stored in the Go field; a missing or
\* null member leaves the field at its zero value.
Unmarshal(b) ==
    CASE b.kind \in {"invalid", "array", "prefixesstr"} ->
             [err |-> TRUE, prefixes |-> <<>>]
      [] b.kind \in {"null", "noprefixes", "prefixesnull"} ->
             [err |-> FALSE, prefixes |-> <<>>]
      [] OTHER ->
             IF \E i \in 1..Len(b.entries) : EntryTypeError(b.entries[i])
             THEN [err |-> TRUE, prefixes |-> <<>>]
             ELSE [err |-> FALSE,
                   prefixes |-> [i \in 1..Len(b.entries) |-> DecodeEntry(b.entries[i])]]

\* A status test that lets every response through.
StatusAcceptedAny(s) == TRUE

\* The status test of getIPPrefixes.
StatusAccepted(s) == s = StatusOK

\* getIPPrefixes
getIPPrefixes(r) ==
    IF r.err = "transport" THEN [err |-> TRUE, prefixes |-> <<>>]
    ELSE IF ~StatusAccepted(r.status) THEN [err |-> TRUE, prefixes |-> <<>>]
    ELSE IF r.err = "read" THEN [err |-> TRUE, prefixes |-> <<>>]
    ELSE Unmarshal(r.body)

\* A Go slice of PrefixForFile: nil, or its elements.
NilSlice == [isNil |-> TRUE, items |-> <<>>]

\* A record whose IP field is filled in from the prefix.
NewRecordIPFilled(p) == [hostname |-> p, ip |-> p]

\* PrefixForFile{Hostname: prefix.Prefix, IP: ""}
NewRecord(p) == [hostname |-> p, ip |-> NoString]

\* A record put at the front of the slice.
PrependRecord(res, rec) == [isNil |-> FALSE, items |-> << rec >> \o res.items]

\* results = append(results, rec)
AppendRecord(res, rec) == [isNil |-> FALSE, items |-> Append(res.items, rec)]

\* json.MarshalIndent of a slice: a nil slice is the JSON value null, any
\* other slice is a JSON array of its elements in order.
MarshalIndent(res) ==
    IF res.isNil THEN [kind |-> "null", items |-> <<>>]
    ELSE [kind |-> "array", items |-> res.items]

\* ------------------------------------------------------------------ state
VARIABLES
    pc,          \* where main is: "exe", "read", "loop", "dig", "whois", "fetch", "append", "done"
    domains,     \* main's domains
    idx,         \* position in domains of the iteration under way (0 before the loop)
    ips,         \* the iteration's ips
    asNumber,    \* the iteration's asNumber
    prefixes,    \* the iteration's prefixes
    k,           \* position in prefixes of the inner loop
    results,     \* main's results, the accumulator
    file,        \* prefix.json: untouched, written (with its document) or damaged
    abort,       \* the fatal error that ended the run: "none", "exe", "read", "write"
    fatalDiags,  \* number of "Error getting executable path" / "Error reading domains" / "Error saving prefixes" lines printed
    successMsg,  \* whether "Prefixes saved to ..." was printed
    writes,      \* number of calls of savePrefixesToFile
    processing,  \* positions of the domains whose "Processing domain" line was printed, in order
    status,      \* per position in domains, the state of that domain's pass
    skipDiags,   \* per position in domains, number of skip diagnostics printed for it
    digCalls,    \* arguments of the getIPsByDig calls of the iteration
    whoisCalls,  \* arguments of the getASNumberByWhois calls of the iteration
    fetchCalls,  \* arguments of the getIPPrefixes calls of the iteration
    digOut,      \* what dig handed back in the iteration
    whoisMatch,  \* what whois handed back in the iteration: <<>>, or its first OriginAS digits
    resp,        \* what the HTTP API handed back in the iteration
    base,        \* results as it was when the iteration began
    owners       \* per element of results, the position of the domain it was appended for

vars == << pc, domains, idx, ips, asNumber, prefixes, k, results, file, abort,
           fatalDiags, successMsg, writes, processing, status, skipDiags,
           digCalls, whoisCalls, fetchCalls, digOut, whoisMatch, resp, base, owners >>

fatalVars == << file, abort, fatalDiags, successMsg, writes >>
localVars == << ips, asNumber, prefixes, k >>
callVars == << digCalls, whoisCalls, fetchCalls, digOut, whoisMatch, resp >>

NoDig == [err |-> FALSE, out |-> NoString]
NoResp == [err |-> "none", status |-> 0, body |-> NoBody]
NoFile == [state |-> "untouched", doc |-> [kind |-> "null", items |-> <<>>]]

Terminal == {"Completed", "Failed", "SkippedNoIP"}

Init ==
    /\ pc = "exe"
    /\ domains = <<>>
    /\ idx = 0
    /\ ips = <<>>
    /\ asNumber = 0
    /\ prefixes = <<>>
    /\ k = 0
    /\ results = NilSlice
    /\ file = NoFile
    /\ abort = "none"
    /\ fatalDiags = 0
    /\ successMsg = FALSE
    /\ writes = 0
    /\ processing = <<>>
    /\ status = <<>>
    /\ skipDiags = <<>>
    /\ digCalls = <<>>
    /\ whoisCalls = <<>>
    /\ fetchCalls = <<>>
    /\ digOut = NoDig
    /\ whoisMatch = <<>>
    /\ resp = NoResp
    /\ base = NilSlice
    /\ owners = <<>>

\* A `return` where main has `continue`.
AfterSkipReturns == "done"

\* `continue` after a per-domain diagnostic: back to the head of the loop.
AfterSkip == "loop"

\* A fatal error: one diagnostic, then `return`.
Fatal(why) ==
    /\ abort' = why
    /\ fatalDiags' = fatalDiags + 1
    /\ pc' = "done"

\* A per-domain error: one diagnostic, then `continue`.
Skip(st) ==
    /\ status' = [status EXCEPT ![idx] = st]
    /\ skipDiags' = [skipDiags EXCEPT ![idx] = @ + 1]
    /\ pc' = AfterSkip

\* os.Executable() with an error check that prints and goes on.
GetExecutableNoReturn ==
    /\ pc = "exe"
    /\ \E ok \in BOOLEAN :
          IF ok
          THEN UNCHANGED << abort, fatalDiags >>
          ELSE /\ abort' = "exe"
               /\ fatalDiags' = fatalDiags + 1
    /\ pc' = "read"
    /\ UNCHANGED << domains, idx, results, file, successMsg, writes, processing,
                    status, skipDiags, base, owners >>
    /\ UNCHANGED << localVars, callVars >>

\* os.Executable() and its error check.
GetExecutable ==
    /\ pc = "exe"
    /\ \E ok \in BOOLEAN :
          IF ok
          THEN /\ pc' = "read"
               /\ UNCHANGED << abort, fatalDiags >>
          ELSE Fatal("exe")
    /\ UNCHANGED << domains, idx, results, file, successMsg, writes, processing,
                    status, skipDiags, base, owners >>
    /\ UNCHANGED << localVars, callVars >>

\* readDomainsFromFile(domainsFilePath) and its error check; var results.
ReadDomains ==
    /\ pc = "read"
    /\ \E r \in ReadOutcomes :
          LET got == readDomainsFromFile(r)
          IN  IF got.err
              THEN /\ Fatal("read")
                   /\ UNCHANGED << domains, status, skipDiags >>
              ELSE /\ domains' = got.domains
                   /\ status' = [i \in 1..Len(got.domains) |-> "Start"]
                   /\ skipDiags' = [i \in 1..Len(got.domains) |-> 0]
                   /\ pc' = "loop"
                   /\ UNCHANGED << abort, fatalDiags >>
    /\ results' = NilSlice
    /\ UNCHANGED << idx, file, successMsg, writes, processing, base, owners >>
    /\ UNCHANGED << localVars, callVars >>

\* The head of `for _, domain := range domains` with a domain left: the
\* iteration's variables are fresh, "Processing domain" is printed.
BeginDomain ==
    /\ pc = "loop"
    /\ idx < Len(domains)
    /\ idx' = idx + 1
    /\ processing' = Append(processing, idx + 1)
    /\ ips' = <<>>
    /\ asNumber' = 0
    /\ prefixes' = <<>>
    /\ k' = 0
    /\ digCalls' = <<>>
    /\ whoisCalls' = <<>>
    /\ fetchCalls' = <<>>
    /\ digOut' = NoDig
    /\ whoisMatch' = <<>>
    /\ resp' = NoResp
    /\ base' = results
    /\ pc' = "dig"
    /\ UNCHANGED << domains, results, status, skipDiags, owners >>
    /\ UNCHANGED fatalVars

\* ips, err := getIPsByDig(domain), the error check and the len(ips) == 0 check.
Dig ==
    /\ pc = "dig"
    /\ \E r \in DigOutcomes :
          LET got == getIPsByDig(r)
          IN  /\ digCalls' = Append(digCalls, domains[idx])
              /\ digOut' = r
              /\ IF got.err
                 THEN /\ Skip("Failed")
                      /\ UNCHANGED ips
                 ELSE IF Len(got.ips) = 0
                 THEN /\ Skip("SkippedNoIP")
                      /\ ips' = got.ips
                 ELSE /\ ips' = got.ips
                      /\ status' = [status EXCEPT ![idx] = "Resolved"]
                      /\ pc' = "whois"
                      /\ UNCHANGED skipDiags
    /\ UNCHANGED << domains, idx, asNumber, prefixes, k, results, processing,
                    whoisCalls, fetchCalls, whoisMatch, resp, base, owners >>
    /\ UNCHANGED fatalVars

\* The last address of the list.
WhoisArgLast(addrs) == addrs[Len(addrs)]

\* The address main hands to getASNumberByWhois.
WhoisArg(addrs) == addrs[1]

\* asNumber, err := getASNumberByWhois(ips[0]) and its error check.
Whois ==
    /\ pc = "whois"
    /\ \E r \in WhoisOutcomes :
          LET got == getASNumberByWhois(r)
              m == FindStringSubmatch(r.out)
          IN  /\ whoisCalls' = Append(whoisCalls, WhoisArg(ips))
              /\ whoisMatch' = IF r.err \/ Len(m) < 2 THEN <<>> ELSE m[2]
              /\ IF got.err
                 THEN /\ Skip("Failed")
                      /\ UNCHANGED asNumber
                 ELSE /\ asNumber' = got.val
                      /\ status' = [status EXCEPT ![idx] = "OriginKnown"]
                      /\ pc' = "fetch"
                      /\ UNCHANGED skipDiags
    /\ UNCHANGED << domains, idx, ips, prefixes, k, results, processing,
                    digCalls, fetchCalls, digOut, resp, base, owners >>
    /\ UNCHANGED fatalVars

\* prefixes, err := getIPPrefixes(asNumber) and its error check; with no
\* prefix to append the iteration is over.
Fetch ==
    /\ pc = "fetch"
    /\ \E r \in HttpOutcomes :
          LET got == getIPPrefixes(r)
          IN  /\ fetchCalls' = Append(fetchCalls, asNumber)
              /\ resp' = r
              /\ IF got.err
                 THEN /\ Skip("Failed")
                      /\ UNCHANGED << prefixes, k >>
                 ELSE /\ prefixes' = got.prefixes
                      /\ UNCHANGED skipDiags
                      /\ IF got.prefixes = <<>>
                         THEN /\ status' = [status EXCEPT ![idx] = "Completed"]
                              /\ pc' = "loop"
                              /\ k' = 0
                         ELSE /\ pc' = "append"
                              /\ k' = 1
                              /\ UNCHANGED status
    /\ UNCHANGED << domains, idx, ips, asNumber, results, processing,
                    digCalls, whoisCalls, digOut, whoisMatch, base, owners >>
    /\ UNCHANGED fatalVars

\* One turn of `for _, prefix := range prefixes`: results = append(results, ...).
AppendPrefix ==
    /\ pc = "append"
    /\ results' = AppendRecord(results, NewRecord(prefixes[k]))
    /\ owners' = Append(owners, idx)
    /\ IF k < Len(prefixes)
       THEN /\ k' = k + 1
            /\ UNCHANGED << pc, status >>
       ELSE /\ status' = [status EXCEPT ![idx] = "Completed"]
            /\ pc' = "loop"
            /\ UNCHANGED k
    /\ UNCHANGED << domains, idx, ips, asNumber, prefixes, processing, skipDiags, base >>
    /\ UNCHANGED callVars
    /\ UNCHANGED fatalVars

\* What ioutil.WriteFile leaves behind: the document, or on an error either
\* nothing new (the file could not be opened) or a damaged file.
WriteOutcomes(doc) ==
    { [err |-> FALSE, file |-> [state |-> "written", doc |-> doc]],
      [err |-> TRUE, file |-> NoFile],
      [err |-> TRUE, file |-> [state |-> "damaged", doc |-> [kind |-> "null", items |-> <<>>]]] }

\* savePrefixesToFile
savePrefixesToFile(data) == WriteOutcomes(MarshalIndent(data))

\* The loop is over (its variables are gone): savePrefixesToFile(results,
\* outputFilePath), its error check and the closing message.
Save ==
    /\ pc = "loop"
    /\ idx = Len(domains)
    /\ writes' = writes + 1
    /\ \E w \in savePrefixesToFile(results) :
          /\ file' = w.file
          /\ IF w.err
             THEN /\ Fatal("write")
                  /\ UNCHANGED successMsg
             ELSE /\ successMsg' = TRUE
                  /\ pc' = "done"
                  /\ UNCHANGED << abort, fatalDiags >>
    /\ ips' = <<>>
    /\ asNumber' = 0
    /\ prefixes' = <<>>
    /\ k' = 0
    /\ digCalls' = <<>>
    /\ whoisCalls' = <<>>
    /\ fetchCalls' = <<>>
    /\ digOut' = NoDig
    /\ whoisMatch' = <<>>
    /\ resp' = NoResp
    /\ UNCHANGED << domains, idx, results, processing, status, skipDiags, base, owners >>

Next ==
    \/ GetExecutable
    \/ ReadDomains
    \/ BeginDomain
    \/ Dig
    \/ Whois
    \/ Fetch
    \/ AppendPrefix
    \/ Save

Spec == Init /\ [][Next]_vars

\* Every call of main returns: dig, whois and the file system answer, and the
\* HTTP client gives up after its timeout.
FairSpec == Spec /\ WF_vars(Next)

\* ----------------------------------------------------------------- claims
\* The pass of domain idx is under way or has just ended (pc = "loop"): the
\* iteration's calls and answers are those of domain idx.
InPass == idx >= 1 /\ pc \in {"dig", "whois", "fetch", "append", "loop"}
\* The pass of domain idx has just ended.
PassEnded == idx >= 1 /\ pc = "loop"

IsPrefixOf(a, b) == Len(a) <= Len(b) /\ SubSeq(b, 1, Len(a)) = a

\* dig succeeded and printed no address.
NoAddress(out) == \A i \in 1..Len(out) : IsSpace(out[i])

\* The stage was called in this pass and failed.
DigFailed == digCalls # <<>> /\ digOut.err
WhoisFailed ==
    whoisCalls # <<>> /\ pc # "whois"
        /\ (whoisMatch = <<>> \/ ~InIntRange(whoisMatch))
FetchFailed ==
    fetchCalls # <<>>
        /\ (resp.err # "none" \/ resp.status # StatusOK
               \/ resp.body.kind \in {"invalid", "array", "prefixesstr"}
               \/ \E i \in 1..Len(resp.body.entries) : resp.body.entries[i].kind = "num")

\* The domains are started once each, in list order, and the final write is
\* attempted at most once, after every domain was started and has ended.
C1_Order ==
    /\ processing = [i \in 1..idx |-> i]
    /\ writes <= 1
    /\ writes = 1 =>
          /\ idx = Len(domains)
          /\ \A i \in 1..Len(domains) : status[i] \in Terminal

\* C1: the batch is never aborted by a per-domain error: the domains of a
\* list that was read are started once each, in list order; the final write
\* is attempted at most once and only after every domain was started and
\* ended; and once the list is read, the write is eventually attempted.
C1_BatchNeverAborts == []C1_Order /\ ((pc = "loop") ~> (writes = 1))
\* The first domain failed, the second was processed, the write was attempted.
C1_Witness ==
    /\ writes = 1
    /\ Len(domains) >= 2
    /\ status[1] = "Failed"
    /\ status[2] = "Completed"
    /\ Len(results.items) >= 1

\* C2: a domain for which dig succeeds and prints no address gets no whois
\* call and no API call, no record, and ends in SkippedNoIP.
C2_NoIPsSkipped ==
    (InPass /\ digCalls # <<>> /\ ~digOut.err /\ NoAddress(digOut.out)) =>
        /\ whoisCalls = <<>>
        /\ fetchCalls = <<>>
        /\ results = base
        /\ PassEnded => status[idx] = "SkippedNoIP"

\* The records appended for the first n decoded prefixes.
RecordsOf(entries, n) ==
    [j \in 1..n |->
        [hostname |-> IF entries[j].kind = "str" THEN entries[j].p ELSE NoString,
         ip |-> NoString]]

\* C3: for a domain whose three stages succeed, the records appended are, one
\* per element of the API's "prefixes" array and in its order (duplicates
\* kept, none for an empty or missing array), the element's Prefix string as
\* hostname and the empty string as ip.
C3_OneRecordPerPrefix ==
    /\ (PassEnded /\ status[idx] = "Completed") =>
          /\ Len(results.items) = Len(base.items) + Len(resp.body.entries)
          /\ results.items =
                base.items \o RecordsOf(resp.body.entries, Len(resp.body.entries))
    /\ (InPass /\ pc = "append") =>
          results.items = base.items \o RecordsOf(resp.body.entries, k - 1)
\* A completed domain whose API answer held the same prefix twice.
C3_Witness ==
    /\ PassEnded
    /\ status[idx] = "Completed"
    /\ Len(resp.body.entries) = 2
    /\ resp.body.entries[1] = resp.body.entries[2]
    /\ resp.body.entries[1].kind = "str"
    /\ Len(base.items) >= 1

\* C4: a domain whose dig, whois or API stage fails (a transport error, a
\* status other than 200, a body that cannot be decoded) leaves the
\* accumulator as it was when its pass began, and every record of the
\* accumulator belongs to a domain that reached Completed (or is being
\* appended for the domain that is completing).
C4_FailedDomainAddsNothing ==
    /\ (InPass /\ (DigFailed \/ WhoisFailed \/ FetchFailed)) =>
          /\ results = base
          /\ pc = "loop"
          /\ status[idx] = "Failed"
    /\ (PassEnded /\ status[idx] # "Completed") => results = base
    /\ Len(owners) = Len(results.items)
    /\ \A j \in 1..Len(owners) :
          \/ status[owners[j]] = "Completed"
          \/ owners[j] = idx /\ pc = "append"
\* After a domain that contributed, a domain whose API call answered 404 with
\* a body full of prefixes.
C4_Witness ==
    /\ PassEnded
    /\ fetchCalls # <<>>
    /\ resp.err = "none"
    /\ resp.status # StatusOK
    /\ resp.body.kind = "list"
    /\ Len(resp.body.entries) >= 1
    /\ resp.body.entries[1].kind = "str"
    /\ Len(base.items) >= 1
    /\ results = base

\* C5: the document written to prefix.json is a JSON array holding the
\* accumulated records in order, the empty array [] when there are none.
C5_WrittenDocIsArray ==
    file.state = "written" =>
        /\ file.doc.kind = "array"
        /\ file.doc.items = results.items

\* The body has the shape {"prefixes": [{"Prefix": string, ...}, ...]}.
MatchesShape(b) ==
    b.kind = "list" /\ \A i \in 1..Len(b.entries) : b.entries[i].kind = "str"

\* C6: a 200 response whose body is not JSON of the shape
\* {"prefixes": [{"Prefix": string, ...}, ...]} makes the fetch fail: the
\* domain ends in Failed and no record is appended.  (Stated for a domain
\* that did resolve to an address and to an AS number of at least 1.)
C6_ShapeMismatchFails ==
    (InPass /\ ~NoAddress(digOut.out) /\ fetchCalls # <<>> /\ fetchCalls[1] >= 1
        /\ resp.err = "none" /\ resp.status = StatusOK /\ ~MatchesShape(resp.body)) =>
        /\ pc = "loop"
        /\ status[idx] = "Failed"
        /\ results = base

NoCallYet ==
    /\ idx = 0
    /\ processing = <<>>
    /\ digCalls = <<>>
    /\ whoisCalls = <<>>
    /\ fetchCalls = <<>>

\* C7: the run is aborted only by a setup error.  When the executable's
\* directory or the domain list cannot be had, no stage is ever called and
\* prefix.json is not touched; when the final write fails there is no success
\* message; in each case one fatal diagnostic is printed and the run is over.
\* A run that ends otherwise has gone through every domain and written.
C7_SetupErrorsAreFatal ==
    /\ abort \in {"exe", "read"} =>
          /\ pc = "done"
          /\ NoCallYet
          /\ \A i \in 1..Len(skipDiags) : skipDiags[i] = 0
          /\ writes = 0
          /\ file = NoFile
          /\ fatalDiags = 1
          /\ ~successMsg
    /\ abort = "write" =>
          /\ pc = "done"
          /\ writes = 1
          /\ file.state # "written"
          /\ fatalDiags = 1
          /\ ~successMsg
    /\ abort = "none" => fatalDiags = 0
    /\ pc # "done" => abort = "none" /\ ~successMsg /\ writes = 0
    /\ (pc = "done" /\ abort \notin {"exe", "read"}) =>
          /\ idx = Len(domains)
          /\ \A i \in 1..Len(domains) : status[i] \in Terminal
    /\ (pc = "done" /\ abort = "none") =>
          /\ successMsg
          /\ file.state = "written"
\* The final write failed in a run in which a domain had been skipped.
C7_Witness ==
    /\ abort = "write"
    /\ \E i \in 1..Len(domains) : status[i] = "Failed" /\ skipDiags[i] = 1

Transitions ==
    { <<"Start", "Resolved">>, <<"Start", "SkippedNoIP">>, <<"Start", "Failed">>,
      <<"Resolved", "OriginKnown">>, <<"Resolved", "Failed">>,
      <<"OriginKnown", "Completed">>, <<"OriginKnown", "Failed">> }

\* What holds of the calls and diagnostics of a pass, and of every step.
C8_Stages ==
    /\ Len(digCalls) <= 1 /\ Len(whoisCalls) <= 1 /\ Len(fetchCalls) <= 1
    /\ whoisCalls # <<>> =>
          /\ InPass
          /\ digCalls = << domains[idx] >>
          /\ ~digOut.err
          /\ whoisCalls[1] = Split(TrimSpace(digOut.out), LF)[1]
    /\ fetchCalls # <<>> =>
          /\ whoisCalls # <<>>
          /\ whoisMatch # <<>>
          /\ fetchCalls[1] = asNumber
          /\ fetchCalls[1] = DecValue(whoisMatch)
    /\ \A i \in 1..Len(status) :
          skipDiags[i] = IF status[i] \in {"Failed", "SkippedNoIP"} THEN 1 ELSE 0
C8_Moves ==
    \A i \in 1..Len(status) :
        /\ status[i] \in Terminal => status'[i] = status[i]
        /\ status'[i] # status[i] => << status[i], status'[i] >> \in Transitions

\* C8: per domain each stage is called at most once; whois only after dig
\* succeeded and with the first address dig returned; the API only after
\* whois succeeded and with the AS number it returned; a failed or skipped
\* domain has exactly one diagnostic, any other none; a domain's state moves
\* only along Start -> Resolved -> OriginKnown -> Completed or to Failed or
\* SkippedNoIP, and never leaves Completed, Failed or SkippedNoIP.
C8_StateMachine == []C8_Stages /\ [][C8_Moves]_vars
\* A domain with two addresses whose API call failed after its whois call.
C8_Witness ==
    /\ PassEnded
    /\ Len(ips) = 2
    /\ ips[1] # ips[2]
    /\ fetchCalls # <<>>
    /\ status[idx] = "Failed"

\* What holds of the order of the passes, and of every step.
C9_InOrder ==
    /\ \A i \in 1..Len(status) :
          /\ i < idx => status[i] \in Terminal
          /\ i > idx => status[i] = "Start"
    /\ pc \in {"dig", "whois", "fetch", "append"} =>
          idx >= 1 /\ status[idx] \notin Terminal
    /\ Len(owners) = Len(results.items)
    /\ \A i, j \in 1..Len(owners) : i < j => owners[i] <= owners[j]
    /\ file.state = "written" => file.doc.items = results.items
C9_Grows == IsPrefixOf(results.items, results'.items)

\* C9: the domains are processed one after the other: every domain before
\* the current one has ended and every later one has not begun; the
\* accumulator changes only by growing at its end; so the records of an
\* earlier domain come before those of a later one.
C9_Sequential == []C9_InOrder /\ [][C9_Grows]_vars
\* A finished run whose output holds records of two domains.
C9_Witness ==
    /\ pc = "done"
    /\ file.state = "written"
    /\ \E i, j \in 1..Len(owners) : owners[i] = 1 /\ owners[j] = 2

\* C10: an AS number that whois yields, and so every AS number handed to the
\* API, is at least 1 and is the number written in the first OriginAS match;
\* without a match, or with digits that are no representable positive integer,
\* the domain fails and the API is not called.  (Stated for a domain that did
\* resolve to an address.)
C10_PositiveAS ==
    (InPass /\ ~NoAddress(digOut.out) /\ whoisCalls # <<>>) =>
        /\ status[idx] \in {"OriginKnown", "Completed"} =>
              /\ whoisMatch # <<>>
              /\ asNumber >= 1
              /\ asNumber = DecValue(whoisMatch)
        /\ \A j \in 1..Len(fetchCalls) : fetchCalls[j] >= 1
        /\ (whoisMatch = <<>> \/ ~InIntRange(whoisMatch) \/ DecValue(StripZeros(whoisMatch)) < 1) =>
              fetchCalls = <<>> /\ status[idx] = "Failed"

====
